---- MODULE Spec2Model ----
(***************************************************************************)
(* Model of src/app/page.tsx: the ProtocolViewer component.                *)
(*                                                                         *)
(* The React state of the component is the set of variables named as the   *)
(* useState hooks name them.  Two more variables hold what lives outside   *)
(* React: the HTMLAudioElement objects the handlers created (audios) and   *)
(* the runs of loadProtocols still in flight (loads).  The variable last   *)
(* is a history variable: it records the step just taken and the values    *)
(* it read, so that properties of one operation can be stated on states.   *)
(*                                                                         *)
(* Every handler runs to completion (one JavaScript task); React applies   *)
(* the state updates it queued before the next task runs.  Within one      *)
(* handler the state constants of the render (audioRefs, playingAudio)     *)
(* keep the value of that render.                                          *)
(***************************************************************************)
EXTENDS Integers, Sequences, FiniteSets, TLC

\* ---------------------------------------------------------------- bounds
MaxUsers == 2          \* users of the roster that are ever selected
MaxAudios == 2         \* Audio objects created in one run
MaxPending == 1        \* tasks queued on one Audio object
MaxClicks == 4         \* clicks of the user in one run
LiveClicks == 3        \* clicks of the user in a run checked for liveness
MaxDetails == 3        \* (Field, Details) pairs of one intervention

\* ------------------------------------------------------------- constants
Null == "null"
Categories == {"supplements", "nutrition", "exercise"}
users == <<"nik", "tyler", "katie", "arnav">>
Users == {users[i] : i \in 1..(IF MaxUsers < Len(users) THEN MaxUsers ELSE Len(users))}
LoadFailed == "Failed to load protocol data. Please refresh the page."
Durations == {2}       \* lengths of the audio files, in ticks of the playback clock
Halves == 0..2         \* click positions on the progress bar, in halves of its width

\* an object keyed by category: a key that is not set reads Undefined, and
\* in audioRefs, whose values are the Audio objects 1, 2, ..., it reads 0
Undefined == 0 - 1
EmptyMap == [supplements |-> Undefined, nutrition |-> Undefined, exercise |-> Undefined]
EmptyRefs == [supplements |-> 0, nutrition |-> 0, exercise |-> 0]
Put(f, k, v) == [f EXCEPT ![k] = v]
Range(f) == {f[x] : x \in Categories} \ {0}

\* the parsed response of /data/{u}_{c}.json
Doc(u, c) == [user |-> u, protocol_type |-> c]
NoDoc == [user |-> Null, protocol_type |-> Null]
\* an intervention of document d (the page treats the interventions of one
\* document alike)
Intervention(d) == [user |-> d.user, protocol_type |-> d.protocol_type]
NoIntervention == [user |-> Null, protocol_type |-> Null]

VARIABLES selectedUser, selectedIntervention, selectedProtocol, protocols,
          loading, error, playingAudio, audioRefs, audioProgress,
          audioDuration, showUserSelector, audios, loads, clicks, last

reactVars == <<selectedUser, selectedIntervention, selectedProtocol, protocols,
               loading, error, playingAudio, audioRefs, audioProgress,
               audioDuration, showUserSelector>>
vars == <<selectedUser, selectedIntervention, selectedProtocol, protocols,
          loading, error, playingAudio, audioRefs, audioProgress,
          audioDuration, showUserSelector, audios, loads, clicks, last>>

\* ---------------------------------------------------------------- loader
\* one run of loadProtocols: the user it was issued for and the await it is
\* suspended at ("fetch": the Promise.all of the three fetches, "json": the
\* Promise.all of the three bodies)
\* res: the documents the responses supplementsRes, nutritionRes and
\* exerciseRes are of, once the first await returned
NewLoad(u) == [user |-> u, at |-> "fetch", res |-> <<>>]

\* the orders in which three promises can settle: order[k] is the position,
\* in the array given to Promise.all, of the k-th promise to settle
Orders == {<<1, 2, 3>>, <<1, 3, 2>>, <<2, 1, 3>>, <<2, 3, 1>>, <<3, 1, 2>>, <<3, 2, 1>>}
\* an await that throws has no result array: one order stands for all
OrdersWhen(returns) == IF returns THEN Orders ELSE {<<1, 2, 3>>}
requests == <<"supplements", "nutrition", "exercise">>

\* Promise.all: each promise that settles stores its value at its own
\* position of the result array
RECURSIVE settleInto(_, _, _)
settleInto(values, order, n) ==
    IF n = 0 THEN <<Null, Null, Null>>
    ELSE [settleInto(values, order, n - 1) EXCEPT ![order[n]] = values[order[n]]]
PromiseAllByCompletion(values, order) ==
    <<values[order[1]], values[order[2]], values[order[3]]>>
PromiseAll(values, order) == settleInto(values, order, Len(order))

\* the effect of useEffect([selectedUser]) up to its first await
noReload(u) == loads
loadProtocols(u) == Append(loads, NewLoad(u))

\* React runs the effect again after a render in which its dependency
\* selectedUser is another object than in the render before
depsIgnored(old, new) == TRUE
depsChanged(old, new) == old # new
useEffect(old, new) ==
    IF depsChanged(old, new)
    THEN /\ loading' = TRUE
         /\ error' = Null
         /\ loads' = loadProtocols(new)
    ELSE UNCHANGED <<loading, error, loads>>

Remove(s, i) == SubSeq(s, 1, i - 1) \o SubSeq(s, i + 1, Len(s))

\* what one fetch comes to: a response with a success status, a response
\* with another status, or a rejection (the network failed)
Outcomes == {"ok", "bad", "rejected"}

\* the render chooses the detail view when both selections are set
DetailView == selectedIntervention # NoIntervention /\ selectedProtocol # NoDoc
\* the protocol cards are in the page
CardsRendered == ~DetailView /\ ~loading /\ error = Null
CardRendered(c) == CardsRendered /\ \E i \in 1..Len(protocols) : protocols[i].protocol_type = c

Init ==
    /\ selectedUser = users[1]
    /\ selectedIntervention = NoIntervention
    /\ selectedProtocol = NoDoc
    /\ protocols = <<>>
    /\ loading = TRUE
    /\ error = Null
    /\ playingAudio = Null
    /\ audioRefs = EmptyRefs
    /\ audioProgress = EmptyMap
    /\ audioDuration = EmptyMap
    /\ showUserSelector = FALSE
    /\ audios = <<>>
    /\ loads = <<NewLoad(users[1])>>
    /\ clicks = 0
    /\ last = [op |-> "init"]

\* the user clicks: the run has clicks left
Click == clicks < MaxClicks /\ clicks' = clicks + 1

\* catch + finally of loadProtocols
LoadThrows(i) ==
    /\ error' = LoadFailed
    /\ loading' = FALSE
    /\ loads' = Remove(loads, i)
    /\ UNCHANGED protocols

\* no fetch was rejected and every response has a success status
firstResponseOk(res) == res["supplements"] = "ok"
responsesOk(res) == \A c \in Categories : res[c] = "ok"

\* the first await returns or throws: res is what the three fetches came to,
\* order the order they completed in
FetchesSettle(i, res, order) ==
    /\ i \in 1..Len(loads)
    /\ loads[i].at = "fetch"
    /\ IF ~responsesOk(res)
       THEN LoadThrows(i)
       ELSE /\ loads' = [loads EXCEPT ![i].at = "json",
                                      ![i].res = PromiseAll(requests, order)]
            /\ UNCHANGED <<protocols, loading, error>>
    /\ last' = [op |-> "fetchesSettle", user |-> loads[i].user,
                ok |-> (\A c \in Categories : res[c] = "ok"),
                oks |-> Cardinality({c \in Categories : res[c] = "ok"})]
    /\ UNCHANGED <<selectedUser, selectedIntervention, selectedProtocol, playingAudio,
                   audioRefs, audioProgress, audioDuration, showUserSelector, audios>>
    /\ UNCHANGED clicks

\* the second await returns or throws: the three bodies parse, in some order,
\* or one does not
JsonSettles(i, parsed, order) ==
    /\ i \in 1..Len(loads)
    /\ loads[i].at = "json"
    /\ IF parsed
       THEN /\ LET bodies == PromiseAll(loads[i].res, order)
               IN protocols' = <<Doc(loads[i].user, bodies[1]),
                                 Doc(loads[i].user, bodies[2]),
                                 Doc(loads[i].user, bodies[3])>>
            /\ loading' = FALSE
            /\ loads' = Remove(loads, i)
            /\ UNCHANGED error
       ELSE LoadThrows(i)
    /\ last' = [op |-> "jsonSettles", user |-> loads[i].user, ok |-> parsed,
                inOrder |-> (parsed => order = <<1, 2, 3>>)]
    /\ UNCHANGED <<selectedUser, selectedIntervention, selectedProtocol, playingAudio,
                   audioRefs, audioProgress, audioDuration, showUserSelector, audios>>
    /\ UNCHANGED clicks

\* ------------------------------------------------- the HTMLAudioElement
\* An Audio object as the handlers see it.  duration 0 stands for NaN (the
\* metadata is not loaded); tasks are the event-loop tasks the element has
\* queued and the page has not run yet, oldest first.
getAudioFile(type, userId) ==
    IF type \in Categories THEN [user |-> userId, type |-> type]
                           ELSE [user |-> Null, type |-> Null]
NoFile == [user |-> Null, type |-> Null]

NewAudio(file, type) ==
    [src |-> file, type |-> type, paused |-> TRUE, duration |-> 0,
     currentTime |-> 0, failed |-> FALSE, tasks |-> <<>>]

\* two timeupdate tasks in a row run the same listener on the same element
\* state, so the second is not queued
Enqueue(q, task) ==
    IF task = "timeupdate" /\ q # <<>> /\ q[Len(q)] = "timeupdate" THEN q ELSE Append(q, task)

\* the promise of a play() call is pending until the playback starts
PlayPending(a) == ~a.paused /\ ~a.failed /\ a.duration = 0

\* audio.pause(): an element that is not paused becomes paused and queues the
\* task that fires timeupdate and pause and rejects the pending play promise
pause(a) ==
    IF a.paused THEN a
    ELSE [a EXCEPT !.paused = TRUE,
                   !.tasks = Enqueue(@, IF PlayPending(a) THEN "pause+reject" ELSE "pause")]

\* audio.play(): on an element whose source failed the promise is rejected;
\* otherwise an element that ended is rewound, and the element is not paused
play(a) ==
    IF a.failed
    THEN [a EXCEPT !.tasks = Enqueue(@, "reject")]
    ELSE IF a.duration # 0 /\ a.currentTime = a.duration
         THEN [a EXCEPT !.paused = FALSE, !.currentTime = 0, !.tasks = Enqueue(@, "timeupdate")]
         ELSE [a EXCEPT !.paused = FALSE]

Room(id) == Len(audios[id].tasks) < MaxPending
Fits(h) == \A id \in DOMAIN h : Len(h[id].tasks) <= MaxPending
Held == Range(audioRefs)
\* the categories whose Audio object, held in audioRefs, is not paused
Unpaused(h, refs) == {c \in Categories : refs[c] # 0 /\ ~h[refs[c]].paused}

\* ------------------------------------------------------- the listeners
\* each listener as a function on the React state it updates
onEndedKeepsProgress(st, type) == [st EXCEPT !.playingAudio = Null]
onEnded(st, type) ==
    [st EXCEPT !.playingAudio = Null, !.audioProgress = Put(@, type, 0)]
onPause(st) == [st EXCEPT !.playingAudio = Null]
onLoadedMetadata(st, type, a) ==
    [st EXCEPT !.audioDuration = Put(@, type, a.duration)]
onTimeUpdateUnscaled(st, type, a) ==
    IF a.duration # 0
    THEN [st EXCEPT !.audioProgress = Put(@, type, a.currentTime * 100)]
    ELSE st
onTimeUpdate(st, type, a) ==
    IF a.duration # 0
    THEN [st EXCEPT !.audioProgress = Put(@, type, (a.currentTime * 100) \div a.duration)]
    ELSE st
onError(st) == [st EXCEPT !.playingAudio = Null]
onPlayRejectedLogsOnly(st) == st
onPlayRejected(st) == [st EXCEPT !.playingAudio = Null]

\* the end of the file was reached and the element still plays
EndedPlayback(a) == ~a.paused /\ a.duration # 0 /\ a.currentTime = a.duration

\* the listeners one task runs, in the order the element fires its events
RunTask(st, task, a) ==
    CASE task = "timeupdate" -> onTimeUpdate(st, a.type, a)
      [] task = "loadedmetadata" -> onLoadedMetadata(st, a.type, a)
      [] task = "pause" -> onPause(onTimeUpdate(st, a.type, a))
      [] task = "pause+reject" -> onPlayRejected(onPause(onTimeUpdate(st, a.type, a)))
      [] task = "ended" -> IF EndedPlayback(a)
                           THEN onEnded(onPause(onTimeUpdate(st, a.type, a)), a.type)
                           ELSE onTimeUpdate(st, a.type, a)
      [] task = "error" -> onError(st)
      [] task = "error+reject" -> onPlayRejected(onError(st))
      [] task = "reject" -> onPlayRejected(st)

Tasks == {"timeupdate", "loadedmetadata", "pause", "pause+reject", "ended",
          "error", "error+reject", "reject"}

\* the element runs its oldest task
Deliver(id) ==
    /\ id \in 1..Len(audios)
    /\ audios[id].tasks # <<>>
    /\ LET a == audios[id]
           task == Head(a.tasks)
           st == RunTask([playingAudio |-> playingAudio, audioProgress |-> audioProgress,
                          audioDuration |-> audioDuration], task, a)
       IN /\ playingAudio' = st.playingAudio
          /\ audioProgress' = st.audioProgress
          /\ audioDuration' = st.audioDuration
          /\ audios' = [audios EXCEPT ![id].tasks = Tail(@),
                                      ![id].paused = IF task = "ended" /\ EndedPlayback(a)
                                                     THEN TRUE ELSE @]
          /\ last' = [op |-> task, type |-> a.type,
                      fired |-> (task # "ended" \/ EndedPlayback(a)),
                      progress |-> IF task = "ended" THEN audioProgress[a.type] ELSE 0]
    /\ UNCHANGED <<selectedUser, selectedIntervention, selectedProtocol, protocols,
                   loading, error, audioRefs, showUserSelector, loads>>
    /\ UNCHANGED clicks

\* ------------------------------------- what the media engine does alone
MetadataLoads(id, d) ==
    /\ id \in 1..Len(audios)
    /\ ~audios[id].failed /\ audios[id].duration = 0 /\ Room(id)
    /\ audios' = [audios EXCEPT ![id].duration = d, ![id].tasks = Enqueue(@, "loadedmetadata")]
    /\ last' = [op |-> "media"]
    /\ UNCHANGED reactVars /\ UNCHANGED loads
    /\ UNCHANGED clicks

\* the file is missing or does not decode: the element fires error and
\* rejects the pending play promise
SourceFails(id) ==
    /\ id \in 1..Len(audios)
    /\ ~audios[id].failed /\ audios[id].duration = 0 /\ Room(id)
    /\ audios' = [audios EXCEPT ![id].failed = TRUE,
                                ![id].tasks = Enqueue(@, IF PlayPending(audios[id])
                                                         THEN "error+reject" ELSE "error")]
    /\ last' = [op |-> "media"]
    /\ UNCHANGED reactVars /\ UNCHANGED loads
    /\ UNCHANGED clicks

TimeAdvances(id) ==
    /\ id \in 1..Len(audios)
    /\ ~audios[id].paused /\ ~audios[id].failed
    /\ audios[id].duration # 0 /\ audios[id].currentTime < audios[id].duration
    /\ Len(Enqueue(audios[id].tasks, "timeupdate")) <= MaxPending
    /\ audios' = [audios EXCEPT ![id].currentTime = @ + 1, ![id].tasks = Enqueue(@, "timeupdate")]
    /\ last' = [op |-> "media"]
    /\ UNCHANGED reactVars /\ UNCHANGED loads
    /\ UNCHANGED clicks

ReachesEnd(id) ==
    /\ id \in 1..Len(audios)
    /\ EndedPlayback(audios[id]) /\ Room(id)
    /\ \A k \in 1..Len(audios[id].tasks) : audios[id].tasks[k] # "ended"
    /\ audios' = [audios EXCEPT ![id].tasks = Enqueue(@, "ended")]
    /\ last' = [op |-> "media"]
    /\ UNCHANGED reactVars /\ UNCHANGED loads
    /\ UNCHANGED clicks

\* --------------------------------------------------- handlePlayPause
\* the two statements of the else branch, as the heaps they leave behind
\* Object.values(audioRefs).forEach: the first n objects of the heap visited
RECURSIVE pauseUpTo(_, _, _, _)
pauseUpTo(h, refs, id, n) ==
    IF n = 0 THEN h
    ELSE LET g == pauseUpTo(h, refs, id, n - 1)
         IN IF n \in Range(refs) /\ n # id THEN [g EXCEPT ![n] = pause(@)] ELSE g
pauseNone(h, refs, id) == h
pauseOthers(h, refs, id) == pauseUpTo(h, refs, id, Len(h))
playSelected(h, id) == [h EXCEPT ![id] = play(h[id])]
startThenStop(h, refs, id) ==
    <<playSelected(h, id), pauseOthers(playSelected(h, id), refs, id)>>
stopThenStart(h, refs, id) ==
    <<pauseOthers(h, refs, id), playSelected(pauseOthers(h, refs, id), id)>>

\* the audio the handler uses after the creation block: audioRefs is the
\* constant of the render, which setAudioRefs does not change
lookupAudio(refs, type, created) == refs[type]

\* the category that plays: its flag is set and its element is not paused
Playing(c) == playingAudio = c /\ audioRefs[c] # 0 /\ ~audios[audioRefs[c]].paused
Idle == playingAudio = Null /\ Unpaused(audios, audioRefs) = {}
TimeOf(c) == IF audioRefs[c] # 0 THEN audios[audioRefs[c]].currentTime ELSE 0

handlePlayPause(protocolType) ==
    /\ Click
    /\ CardRendered(protocolType)
    /\ getAudioFile(protocolType, selectedUser) # NoFile
    /\ LET exists == audioRefs[protocolType] # 0
           created == Len(audios) + 1
           heap == IF exists THEN audios
                   ELSE Append(audios, NewAudio(getAudioFile(protocolType, selectedUser), protocolType))
           audio == lookupAudio(audioRefs, protocolType, created)
           steps == stopThenStart(heap, audioRefs, audio)
       IN /\ exists \/ Len(audios) < MaxAudios
          /\ audioRefs' = IF exists THEN audioRefs ELSE Put(audioRefs, protocolType, created)
          /\ IF audio = 0
             THEN /\ audios' = heap
                  /\ UNCHANGED playingAudio
             ELSE IF playingAudio = protocolType
                  THEN /\ audios' = [heap EXCEPT ![audio] = pause(@)]
                       /\ playingAudio' = Null
                  ELSE /\ audios' = steps[2]
                       /\ playingAudio' = protocolType
          /\ Fits(audios')
          /\ last' = [op |-> "handlePlayPause", type |-> protocolType,
                      existed |-> exists,
                      idle |-> Idle,
                      from |-> IF playingAudio # Null /\ Playing(playingAudio)
                               THEN playingAudio ELSE Null,
                      mid |-> IF audio # 0 /\ playingAudio # protocolType
                              THEN Cardinality(Unpaused(steps[1], audioRefs)) ELSE 0,
                      midFrom |-> (audio # 0 /\ playingAudio \notin {Null, protocolType}
                                   /\ playingAudio \in Unpaused(steps[1], audioRefs))]
    /\ UNCHANGED <<selectedUser, selectedIntervention, selectedProtocol, protocols,
                   loading, error, audioProgress, audioDuration, showUserSelector, loads>>

\* -------------------------------------------------------- handleSeek
\* a click at k halves of the bar's width: percentage = k / 2
\* (the handler reads the click position after its early return only)
seekAlways(audio) == audio # 0
seekTimeToEnd(k, duration) == duration
\* newTime = percentage * audio.duration, and percentage * 100
seekTime(k, duration) == (k * duration) \div 2
seekProgress(k) == (k * 100) \div 2
seekReady(audio) == audio # 0 /\ audios[audio].duration # 0

handleSeek(protocolType, k) ==
    /\ Click
    /\ CardRendered(protocolType)
    /\ LET audio == audioRefs[protocolType]
       IN /\ IF seekReady(audio)
             THEN /\ audios' = [audios EXCEPT ![audio].currentTime = seekTime(k, audios[audio].duration),
                                              ![audio].tasks = Enqueue(@, "timeupdate")]
                  /\ audioProgress' = Put(audioProgress, protocolType, seekProgress(k))
             ELSE UNCHANGED <<audios, audioProgress>>
          /\ Fits(audios')
          /\ last' = [op |-> "handleSeek", type |-> protocolType,
                      ready |-> (audio # 0 /\ audios[audio].duration # 0),
                      k |-> IF audio # 0 /\ audios[audio].duration # 0 THEN k ELSE 0]
    /\ UNCHANGED <<selectedUser, selectedIntervention, selectedProtocol, protocols,
                   loading, error, playingAudio, audioRefs, audioDuration,
                   showUserSelector, loads>>

\* ------------------------------------------- the user selector's onClick
\* the effect of useEffect([selectedUser]) runs when the user object changed
SelectUser(user) ==
    /\ Click
    /\ ~DetailView /\ showUserSelector
    /\ user \in Users
    /\ selectedUser' = user
    /\ showUserSelector' = FALSE
    /\ playingAudio' = Null
    /\ audioRefs' = EmptyRefs
    /\ audioProgress' = EmptyMap
    /\ audioDuration' = EmptyMap
    /\ useEffect(selectedUser, user)
    /\ last' = [op |-> "selectUser", from |-> selectedUser, flag |-> playingAudio,
                loads |-> Len(loads)]
    /\ UNCHANGED <<selectedIntervention, selectedProtocol, protocols, audios>>

\* ------------------------------------------------------------ navigation
ToggleUserSelector ==
    /\ Click
    /\ ~DetailView
    /\ showUserSelector' = ~showUserSelector
    /\ last' = [op |-> "toggleUserSelector"]
    /\ UNCHANGED <<selectedUser, selectedIntervention, selectedProtocol, protocols,
                   loading, error, playingAudio, audioRefs, audioProgress,
                   audioDuration, audios, loads>>

SelectIntervention(i) ==
    /\ Click
    /\ CardsRendered
    /\ i \in 1..Len(protocols)
    /\ selectedIntervention' = Intervention(protocols[i])
    /\ selectedProtocol' = protocols[i]
    /\ last' = [op |-> "selectIntervention"]
    /\ UNCHANGED <<selectedUser, protocols, loading, error, playingAudio, audioRefs,
                   audioProgress, audioDuration, showUserSelector, audios, loads>>

GoBack ==
    /\ Click
    /\ DetailView
    /\ selectedIntervention' = NoIntervention
    /\ useEffect(selectedUser, selectedUser)
    /\ last' = [op |-> "goBack"]
    /\ UNCHANGED <<selectedUser, selectedProtocol, protocols,
                   playingAudio, audioRefs, audioProgress, audioDuration,
                   showUserSelector, audios>>

Next ==
    \/ \E i \in 1..Len(loads), res \in [Categories -> Outcomes] :
          \E order \in OrdersWhen(\A c \in Categories : res[c] = "ok") :
             FetchesSettle(i, res, order)
    \/ \E i \in 1..Len(loads), parsed \in BOOLEAN :
          \E order \in OrdersWhen(parsed) : JsonSettles(i, parsed, order)
    \/ ToggleUserSelector
    \/ \E i \in 1..3 : SelectIntervention(i)
    \/ GoBack
    \/ \E user \in Users : SelectUser(user)
    \/ \E c \in Categories : handlePlayPause(c)
    \/ \E c \in Categories, k \in Halves : handleSeek(c, k)
    \/ \E id \in 1..MaxAudios : Deliver(id)
    \/ \E id \in 1..MaxAudios, d \in Durations : MetadataLoads(id, d)
    \/ \E id \in 1..MaxAudios : SourceFails(id)
    \/ \E id \in 1..MaxAudios : TimeAdvances(id)
    \/ \E id \in 1..MaxAudios : ReachesEnd(id)

Spec == Init /\ [][Next]_vars

\* ------------------------------------------------- the detail lookups
\* The render reads two named fields of an intervention.  Spec above leaves
\* the details of an intervention out; LookupSpec is the page showing one
\* document with one intervention whose details are any list of pairs.
Fields == {"Description", "Benefit Summary", "description"}
Texts == {"X", "Y"}
Pairs == [Field : Fields, Details : Texts]
RECURSIVE ListsUpTo(_)
ListsUpTo(n) ==
    IF n = 0 THEN {<<>>}
    ELSE ListsUpTo(n - 1) \cup {Append(l, p) : l \in {m \in ListsUpTo(n - 1) : Len(m) = n - 1},
                                                p \in Pairs}
DetailLists == ListsUpTo(MaxDetails)
Absent == "undefined"

\* details.find((d) => d.Field === name)?.Details
RECURSIVE findFrom(_, _, _)
findFrom(details, name, i) ==
    IF i > Len(details) THEN 0
    ELSE IF details[i].Field = name THEN i ELSE findFrom(details, name, i + 1)
RECURSIVE findLastFrom(_, _, _)
findLastFrom(details, name, i) ==
    IF i = 0 THEN 0
    ELSE IF details[i].Field = name THEN i ELSE findLastFrom(details, name, i - 1)
findLast(details, name) == findLastFrom(details, name, Len(details))
find(details, name) == findFrom(details, name, 1)
lookup(details, name) ==
    IF find(details, name) = 0 THEN Absent ELSE details[find(details, name)].Details

DetailedIntervention(ds) ==
    [user |-> users[1], protocol_type |-> "supplements", details |-> ds]
DetailedDoc(ds) ==
    [user |-> users[1], protocol_type |-> "supplements",
     interventions |-> <<DetailedIntervention(ds)>>]

\* the first load returned a document, and the user opened its intervention
LookupInit ==
    /\ \E ds \in DetailLists :
          /\ protocols = <<DetailedDoc(ds)>>
          /\ selectedIntervention = DetailedIntervention(ds)
          /\ selectedProtocol = DetailedDoc(ds)
    /\ selectedUser = users[1]
    /\ loading = FALSE
    /\ error = Null
    /\ playingAudio = Null
    /\ audioRefs = EmptyRefs
    /\ audioProgress = EmptyMap
    /\ audioDuration = EmptyMap
    /\ showUserSelector = FALSE
    /\ audios = <<>>
    /\ loads = <<>>
    /\ clicks = 0
    /\ last = [op |-> "init"]

LookupFrame ==
    UNCHANGED <<selectedUser, selectedProtocol, protocols, loading, error, playingAudio,
                audioRefs, audioProgress, audioDuration, showUserSelector, audios,
                loads, clicks>>

\* the detail view renders the description of the selected intervention
RenderDetail ==
    /\ DetailView
    /\ last' = [op |-> "renderDetail",
                text |-> lookup(selectedIntervention.details, "Description")]
    /\ UNCHANGED selectedIntervention
    /\ LookupFrame

\* the list renders the benefit summary of the intervention of the card
RenderCard ==
    /\ CardsRendered
    /\ last' = [op |-> "renderCard",
                text |-> lookup(protocols[1].interventions[1].details, "Benefit Summary")]
    /\ UNCHANGED selectedIntervention
    /\ LookupFrame

LookupBack ==
    /\ DetailView
    /\ selectedIntervention' = NoIntervention
    /\ last' = [op |-> "goBack"]
    /\ LookupFrame

LookupSelect ==
    /\ CardsRendered
    /\ selectedIntervention' = protocols[1].interventions[1]
    /\ last' = [op |-> "selectIntervention"]
    /\ LookupFrame

LookupNext == RenderDetail \/ RenderCard \/ LookupBack \/ LookupSelect

LookupSpec == LookupInit /\ [][LookupNext]_vars

\* ================================================================ claims
HeldTasksDone == \A id \in Held : audios[id].tasks = <<>>
Unpausedc(c) == audioRefs[c] # 0 /\ ~audios[audioRefs[c]].paused

\* C1: in every reachable state at most one category is playing: there are
\* never two categories whose playing flag is set or whose Audio object, held
\* in audioRefs, is not paused.
C1_AtMostOnePlaying ==
    Cardinality({c \in Categories : playingAudio = c \/ Unpausedc(c)}) <= 1

\* the case of C1: a second category was started while a first one played
C1_Witness ==
    /\ last.op = "handlePlayPause" /\ last.existed
    /\ last.from \notin {Null, last.type}
    /\ Playing(last.type)
    /\ Cardinality(Held) >= 2

\* the source of the Audio object of c has failed
Failed(c) == audioRefs[c] # 0 /\ audios[audioRefs[c]].failed

\* C2: when no category is playing and requestToggle(c) is called twice in
\* succession, then after the first call c is playing (flag set, resource
\* started) and after the second call c is not playing and its elapsed time is
\* the one before the second call; whether or not c had a PlaybackState.
C2_ToggleTwice ==
    [][\A c \in Categories :
          /\ (Idle /\ ~Failed(c) /\ last'.op = "handlePlayPause" /\ last'.type = c)
                => Playing(c)'
          /\ (/\ last.op = "handlePlayPause" /\ last.type = c /\ last.idle
              /\ ~Failed(c) /\ last'.op = "handlePlayPause" /\ last'.type = c)
                => /\ playingAudio' # c
                   /\ ~Unpausedc(c)'
                   /\ TimeOf(c)' = TimeOf(c)]_vars

\* C3: when a is playing and requestToggle(b) is called for another category
\* b (that has a PlaybackState whose resource has not failed), then a is not
\* playing and its elapsed time is the one before the call, and once the
\* callback caused by the call has run b is playing with its flag set.
C3_SwitchLeavesNewPlaying ==
    [][\A a, b \in Categories : a # b =>
          /\ (/\ Playing(a) /\ audioRefs[b] # 0 /\ ~Failed(b)
              /\ last'.op = "handlePlayPause" /\ last'.type = b)
                => ~Unpausedc(a)' /\ TimeOf(a)' = TimeOf(a)
          /\ (/\ last.op = "handlePlayPause" /\ last.type = b /\ last.from = a
              /\ last.existed /\ ~Failed(b)
              /\ last'.op \in Tasks /\ HeldTasksDone')
                => ~Unpausedc(a)' /\ Playing(b)']_vars

\* an Audio object plays: it is not paused and its source has not failed
Sounds(a) == ~a.paused /\ ~a.failed

\* C4: after the selected user changed, no audio resource created in the
\* session of the previous user is playing.
C4_PreviousAudioStopped ==
    (last.op = "selectUser" /\ last.from # selectedUser)
        => \A id \in 1..Len(audios) : ~Sounds(audios[id])

\* the protocol list the page shows
ShownProtocols == IF ~loading /\ error = Null THEN protocols ELSE <<>>

\* C5: the result of a load issued for a user who is no longer the selected
\* one never replaces the protocol list, and the list shown for the selected
\* user is only ever the one fetched for that user.
C5_StaleLoadIgnored ==
    /\ [](\A i \in 1..Len(ShownProtocols) : ShownProtocols[i].user = selectedUser)
    /\ [][(last'.op \in {"fetchesSettle", "jsonSettles"} /\ last'.user # selectedUser)
             => protocols' = protocols]_vars

\* C6: switching the selected user while a category is playing leaves no
\* playing flag set, no PlaybackState entry (audio handle, progress, duration)
\* and a fresh load of the protocol documents in flight for the new user.
C6_SwitchResetsPlayback ==
    (last.op = "selectUser" /\ last.from # selectedUser /\ last.flag # Null)
        => /\ playingAudio = Null
           /\ audioRefs = EmptyRefs
           /\ audioProgress = EmptyMap
           /\ audioDuration = EmptyMap
           /\ loading /\ error = Null
           /\ loads # <<>> /\ loads[Len(loads)] = NewLoad(selectedUser)
           /\ Len(loads) = last.loads + 1

\* the case of C6: the user was switched while a category played
C6_Witness ==
    /\ last.op = "selectUser" /\ last.from # selectedUser /\ last.flag # Null
    /\ \E id \in 1..Len(audios) : Sounds(audios[id])

\* the start of c failed and c is still flagged playing
FlaggedFailed(c) ==
    playingAudio = c /\ audioRefs[c] # 0 /\ audios[audioRefs[c]].failed

\* the event loop runs every task an Audio object queued
LiveSpec ==
    /\ Init
    /\ [][Next /\ clicks' <= LiveClicks]_vars
    /\ \A id \in 1..MaxAudios : WF_vars(Deliver(id))

\* C7: when requestToggle(c) started the playback and the start failed (play
\* rejection or error event), the playing flag of c is eventually cleared.
C7_FailedStartClearsFlag ==
    (\E c \in Categories : FlaggedFailed(c)) ~> (\A c \in Categories : ~FlaggedFailed(c))

\* the case of C7: a category is flagged playing and its source has failed
C7_Witness == \E c \in Categories : FlaggedFailed(c)

\* C8: in requestToggle(b) while another category a plays, the resource of a
\* is stopped before the resource of b is started: between the two statements
\* of the handler no two held resources are un-paused.
C8_StopBeforeStart ==
    last.op = "handlePlayPause" => last.mid <= 1 /\ ~last.midFrom

\* the case of C8: b was started while a played
C8_Witness ==
    /\ last.op = "handlePlayPause" /\ last.existed
    /\ last.from \notin {Null, last.type}
    /\ Unpausedc(last.type) /\ ~Unpausedc(last.from)

\* C9: whatever the progress of c was, after the ended listener of c ran the
\* progress of c is 0 and c is not flagged playing.
C9_EndedResetsProgress ==
    (last.op = "ended" /\ last.fired)
        => /\ audioProgress[last.type] = 0
           /\ playingAudio # last.type

\* the case of C9: the ended listener ran when the progress was not 0
C9_Witness == last.op = "ended" /\ last.fired /\ last.progress > 0

\* C10: seek(c, f) on a category whose duration is unknown (no PlaybackState,
\* or metadata not loaded) changes nothing: not the elapsed time of the
\* resource, the progress, the duration, the playing flag nor any other state.
C10_SeekBeforeReadyIsNoOp ==
    [][(last'.op = "handleSeek" /\ ~last'.ready)
          => UNCHANGED <<audios, reactVars, loads>>]_vars

\* the case of C10: a seek on a category that plays with its metadata not loaded
C10_Witness ==
    /\ last.op = "handleSeek" /\ ~last.ready
    /\ Playing(last.type)

\* C11: seek(c, f) on a category with known duration d sets the elapsed time
\* of the resource to f * d and the progress of c to f * 100 in the same step,
\* while the progress callback of the seek is still to be delivered (f is k
\* halves: f * d = k * d / 2 and f * 100 = k * 50).
C11_SeekSetsTimeAndProgress ==
    (last.op = "handleSeek" /\ last.ready)
        => LET a == audios[audioRefs[last.type]]
           IN /\ 2 * a.currentTime = last.k * a.duration
              /\ 2 * audioProgress[last.type] = last.k * 100
              /\ a.tasks # <<>> /\ a.tasks[Len(a.tasks)] = "timeupdate"

\* the case of C11: a seek to the middle of a file of known duration
C11_Witness ==
    /\ last.op = "handleSeek" /\ last.ready /\ last.k = 1
    /\ audioProgress[last.type] = 50
    /\ audios[audioRefs[last.type]].currentTime = 1

\* C12: when the three fetches of a user all succeed, the protocol list is
\* exactly [supplements, nutrition, exercise] of that user, in that order, in
\* whatever order the fetches and the parsed bodies completed.
C12_FixedProtocolOrder ==
    /\ \A i \in 1..Len(loads) : loads[i].at = "json" => loads[i].res = requests
    /\ (last.op = "jsonSettles" /\ last.ok)
          => protocols = <<Doc(last.user, "supplements"), Doc(last.user, "nutrition"),
                           Doc(last.user, "exercise")>>

\* the case of C12: the list was assigned when the documents completed in
\* another order than the one they were requested in
C12_Witness ==
    /\ last.op = "jsonSettles" /\ last.ok /\ ~last.inOrder
    /\ Len(protocols) = 3 /\ protocols[1].protocol_type = "supplements"

\* C13: if any one of the three fetches of a load returns a non-success
\* status or fails, the load ends with the load error set and the loading flag
\* cleared, the protocol list is not assigned, and no protocol card is
\* rendered while the error is set.
C13_AnyFetchFailureFailsLoad ==
    /\ []((last.op = "fetchesSettle" /\ ~last.ok) => (error = LoadFailed /\ ~loading))
    /\ [](error # Null => (~CardsRendered /\ ShownProtocols = <<>>))
    /\ [][(last'.op = "fetchesSettle" /\ ~last'.ok) => protocols' = protocols]_vars

\* the case of C13: one fetch of a load failed while the other two succeeded,
\* with a protocol list of an earlier load in the state
C13_Witness ==
    /\ last.op = "fetchesSettle" /\ last.oks = 2
    /\ error = LoadFailed /\ protocols # <<>>

\* C14: select-user(u), for any u of the roster, the selected user included,
\* leaves the viewer in Browsing for u with no intervention selected, a new
\* run of the loader in flight for u and the PlaybackState cleared.
C14_SelectUserReloads ==
    last.op = "selectUser"
        => /\ ~DetailView /\ selectedIntervention = NoIntervention
           /\ playingAudio = Null /\ audioRefs = EmptyRefs
           /\ audioProgress = EmptyMap /\ audioDuration = EmptyMap
           /\ Len(loads) = last.loads + 1
           /\ loads[Len(loads)] = NewLoad(selectedUser)
           /\ loading

\* C15: go-back from Detail returns to Browsing with the selected user, the
\* protocol list, the loading and error flags and all PlaybackState
\* unchanged, and issues no fetch.
C15_GoBackKeepsState ==
    [][last'.op = "goBack"
          => /\ DetailView /\ ~DetailView'
             /\ UNCHANGED <<selectedUser, protocols, loading, error, playingAudio,
                            audioRefs, audioProgress, audioDuration, audios, loads>>]_vars

\* the case of C15: the user went back to the list while a category played
C15_Witness ==
    /\ last.op = "goBack" /\ ~DetailView
    /\ \E c \in Categories : Playing(c)

\* the step runs the task at the head of the queue of Audio object id
Delivers(id, task) ==
    /\ id \in 1..Len(audios) /\ audios[id].tasks # <<>>
    /\ Head(audios[id].tasks) = task /\ last'.op = task
    /\ audios'[id].tasks = Tail(audios[id].tasks)

\* C16: in every reachable state the progress of every category that has one
\* lies in [0,100]; the timeupdate listener sets it to elapsed / duration *
\* 100 when the duration is known and leaves it alone when it is not.
C16_ProgressInRange ==
    /\ [](\A c \in Categories :
             audioProgress[c] = Undefined \/ audioProgress[c] \in 0..100)
    /\ [][\A id \in 1..MaxAudios :
             Delivers(id, "timeupdate")
                => LET a == audios[id]
                   IN IF a.duration # 0
                      THEN audioProgress'[a.type] * a.duration = a.currentTime * 100
                      ELSE audioProgress' = audioProgress]_vars

\* the case of C16: the timeupdate listener ran at the end of the file
C16_Witness ==
    /\ last.op = "timeupdate"
    /\ audioProgress[last.type] = 100

\* the pairs of the intervention the last render looked a field up in
Looked == protocols[1].interventions[1].details
Matches(name) == {i \in 1..Len(Looked) : Looked[i].Field = name}
FirstMatch(name) == CHOOSE i \in Matches(name) : \A j \in Matches(name) : i <= j

\* C17: looking up "Description" or "Benefit Summary" in the ordered pairs of
\* an intervention gives the detail text of the first pair whose field equals
\* the name exactly, and absent when no pair matches.
C17_LookupFirstMatch ==
    \A r \in {<<"renderDetail", "Description">>, <<"renderCard", "Benefit Summary">>} :
        last.op = r[1]
           => IF Matches(r[2]) = {} THEN last.text = Absent
              ELSE last.text = Looked[FirstMatch(r[2])].Details

\* the case of C17: two pairs are named Description and hold different texts
C17_Witness ==
    /\ last.op = "renderDetail"
    /\ Cardinality(Matches("Description")) >= 2
    /\ \E i \in Matches("Description") : Looked[i].Details # last.text
    /\ last.text # Absent

\* no Audio object has a callback still to run
NoCallbackPending == \A id \in 1..Len(audios) : audios[id].tasks = <<>>

\* C18: whenever no audio callback is pending, the playing flag names c if
\* and only if the Audio object of c held in audioRefs is playing (so the flag
\* is empty if and only if none is).
C18_FlagAgreesWithResources ==
    NoCallbackPending
        => \A c \in Categories :
              playingAudio = c <=> (audioRefs[c] # 0 /\ Sounds(audios[audioRefs[c]]))

\* the tasks that run the ended, pause or error listener or the catch of play()
StateCallbacks == {"ended", "pause", "pause+reject", "error", "error+reject", "reject"}

\* C19: a callback of category a (ended, pause, error, rejection of the play
\* request of a) never changes the playing state of another category b: if b
\* plays when the callback is delivered, b is still flagged playing after it.
C19_CallbackKeepsOtherFlag ==
    [][\A id \in 1..MaxAudios, b \in Categories, task \in StateCallbacks :
          (Delivers(id, task) /\ audios[id].type # b /\ Playing(b))
              => playingAudio' = b]_vars

\* Audio object id was created in the session of a user selected before and
\* is no longer held
FromPreviousSession(id) ==
    id \in 1..Len(audios) /\ id \notin Held /\ audios[id].src.user # selectedUser

\* C20: after a user switch, a callback delivered late from an Audio object
\* created in the session of the previous user (progress, metadata loaded,
\* ended, pause, error) does not modify the state of the new session: not the
\* progress, not the duration and not the playing flag.
C20_LateCallbacksIgnored ==
    [][\A id \in 1..MaxAudios, task \in Tasks :
          (Delivers(id, task) /\ FromPreviousSession(id))
              => UNCHANGED <<playingAudio, audioProgress, audioDuration>>]_vars

\* the step is an await of a load returning or throwing; the load was issued
\* for the user who is selected, or for a user selected before
Settles == last'.op \in {"fetchesSettle", "jsonSettles"}
SettlesStale == Settles /\ last'.user # selectedUser

\* C21: from the moment a user is selected until the load issued for that
\* user settles, the loading flag stays true and no protocol card is
\* rendered; the settling of a load issued for a user selected before neither
\* clears the loading flag nor sets the error of the current user.
C21_LoadingUntilOwnLoadSettles ==
    [][/\ (loading /\ (~Settles \/ SettlesStale)) => (loading' /\ ~CardsRendered')
       /\ SettlesStale => (loading' = loading /\ error' = error)]_vars
====
